---- MODULE Spec2Model ----
(***************************************************************************)
(* Model of fastcmpstr::Str (src/src/lib.rs): a string value that keeps    *)
(* the first PREFIX_LENGTH bytes inline and the remaining bytes in a heap  *)
(* buffer reached through a raw pointer.                                   *)
(*                                                                         *)
(* The heap is a sequence of blocks; a pointer is an index into it and     *)
(* NULL is 0.  A block records the size it was allocated with, the bytes   *)
(* written to it, how many times it was passed to dealloc and the size     *)
(* given to the last dealloc.                                              *)
(***************************************************************************)
EXTENDS Integers, Sequences, FiniteSets

VARIABLES
    self,      \* the Str under test
    other,     \* the second operand of == and starts_with
    heap,      \* the allocator's blocks
    src,       \* the bytes self was built from
    osrc,      \* the bytes other was built from (also the raw &str candidate)
    build,     \* "release", or "debug" (debug_assert! and overflow checks on)
    dropped,   \* both values have gone out of scope
    out        \* the last operation, its argument and what it produced

vars == <<self, other, heap, src, osrc, build, dropped, out>>

----------------------------------------------------------------------------
(* Program constants *)

PREFIX_LENGTH == 10

\* CapacityOffsetType = u16
CapacityOffsetBits == 16

CapacityOffsetTypeMAX == 2^CapacityOffsetBits - 1

NULL == 0

----------------------------------------------------------------------------
(* Bounds and inputs of the model *)

\* longest input string
MaxLen == 12
\* reserve calls that allocate, per run
MaxGrowths == 2

\* the two build profiles: debug_assert! and integer overflow checks are
\* compiled in only in "debug"
Builds == {"release", "debug"}

\* The string of n bytes 1
Ones(n) == [i \in 1..n |-> 1]

\* Ones(n) with one byte replaced by 0 (a legal byte of a &str, and the
\* value the unused part of the inline array is padded with)
Deviations(n) == { [Ones(n) EXCEPT ![k] = 0] : k \in 1..n }

\* Input strings: every length 0..MaxLen, below, at and above PREFIX_LENGTH
Inputs == UNION { {Ones(n)} \cup Deviations(n) : n \in 0..MaxLen }

\* reserve requests: small ones, and ones around the CapacityOffsetType limit
SmallRequests == {0, 2, 5, 13}
BigRequests == { CapacityOffsetTypeMAX - 1, CapacityOffsetTypeMAX,
                 CapacityOffsetTypeMAX + 4 }
Requests == SmallRequests \cup BigRequests

----------------------------------------------------------------------------
(* Helpers *)

Min(a, b) == IF a <= b THEN a ELSE b

\* <[u8]>::starts_with
SliceStartsWith(a, b) ==
    /\ Len(b) <= Len(a)
    /\ SubSeq(a, 1, Len(b)) = b

\* std::alloc::alloc: a fresh block of `size` bytes, nothing written yet
Alloc(h, size) ==
    Append(h, [size |-> size, data |-> << >>, frees |-> 0, freed_size |-> -1])

\* core::ptr::copy(from, ptr, n) into the start of block ptr
CopyInto(h, ptr, bytes) == [h EXCEPT ![ptr].data = bytes]

\* std::alloc::dealloc(ptr, Layout::array::<u8>(size))
Dealloc(h, ptr, size) ==
    [h EXCEPT ![ptr].frees = @ + 1, ![ptr].freed_size = size]

\* slice::from_raw_parts(ptr, n) of a block that holds at least n written bytes
FromRawParts(h, ptr, n) == SubSeq(h[ptr].data, 1, n)

----------------------------------------------------------------------------
(* Str::from.  LenType is u32 and every input here is far shorter than      *)
(* LenType::MAX, so the debug_assert! on line 24 passes and the cast on     *)
(* line 28 keeps the value.                                                 *)

\* from, allocating a suffix block already at len == PREFIX_LENGTH
from_alloc_at_prefix_len(bytes, h) ==
    LET _len == Len(bytes)
        len_ == _len
        prefix_len == Min(_len, PREFIX_LENGTH)
        prefix == [i \in 1..PREFIX_LENGTH |->
                      IF i <= prefix_len THEN bytes[i] ELSE 0]
    IN  IF len_ >= PREFIX_LENGTH
        THEN LET ptr_len == len_ - PREFIX_LENGTH
                 h1 == Alloc(h, ptr_len)
                 suffix == Len(h1)
                 h2 == CopyInto(h1, suffix,
                           SubSeq(bytes, PREFIX_LENGTH + 1, PREFIX_LENGTH + ptr_len))
             IN  [str |-> [len |-> len_, prefix |-> prefix,
                           capacity_offset |-> 0, suffix |-> suffix],
                  heap |-> h2]
        ELSE [str |-> [len |-> len_, prefix |-> prefix,
                       capacity_offset |-> 0, suffix |-> NULL],
              heap |-> h]

from(bytes, h) ==
    LET _len == Len(bytes)
        len_ == _len
        prefix_len == Min(_len, PREFIX_LENGTH)
        prefix == [i \in 1..PREFIX_LENGTH |->
                      IF i <= prefix_len THEN bytes[i] ELSE 0]
    IN  IF len_ > PREFIX_LENGTH
        THEN LET ptr_len == len_ - PREFIX_LENGTH
                 h1 == Alloc(h, ptr_len)
                 suffix == Len(h1)
                 h2 == CopyInto(h1, suffix,
                           SubSeq(bytes, PREFIX_LENGTH + 1, PREFIX_LENGTH + ptr_len))
             IN  [str |-> [len |-> len_, prefix |-> prefix,
                           capacity_offset |-> 0, suffix |-> suffix],
                  heap |-> h2]
        ELSE [str |-> [len |-> len_, prefix |-> prefix,
                       capacity_offset |-> 0, suffix |-> NULL],
              heap |-> h]

len(s) == s.len

is_empty(s) == s.len = 0

capacity(s) ==
    LET prefix_extra_capactiy == PREFIX_LENGTH - Min(PREFIX_LENGTH, s.len)
    IN  s.len + s.capacity_offset + prefix_extra_capactiy

----------------------------------------------------------------------------
(* Str::starts_with(&self, other: &Str) *)

\* starts_with, deciding on the inline prefix alone
starts_with_prefix_only(s, o, h) ==
    IF o.len > s.len THEN FALSE
    ELSE SliceStartsWith(s.prefix,
             SubSeq(o.prefix, 1, Min(PREFIX_LENGTH, len(o))))

starts_with(s, o, h) ==
    IF o.len > s.len THEN FALSE
    ELSE IF ~SliceStartsWith(s.prefix,
                SubSeq(o.prefix, 1, Min(PREFIX_LENGTH, len(o)))) THEN FALSE
    ELSE IF s.len <= PREFIX_LENGTH \/ o.len <= PREFIX_LENGTH THEN TRUE
    ELSE LET self_ptr_len == len(s) - PREFIX_LENGTH
             self_suffix == FromRawParts(h, s.suffix, self_ptr_len)
             other_ptr_len == len(o) - PREFIX_LENGTH
             other_suffix == FromRawParts(h, o.suffix, other_ptr_len)
         IN  SliceStartsWith(self_suffix, other_suffix)

(* <Str as StartsWithStr>::starts_with(&self, other: &str).                 *)
(* The set of results a call can have: [panic |-> TRUE] or a boolean.       *)
(*  - self.len() - PREFIX_LENGTH is a usize subtraction: with overflow      *)
(*    checks (debug) it panics when self.len() < PREFIX_LENGTH; without     *)
(*    them it wraps and from_raw_parts is given a length above isize::MAX,  *)
(*    which is undefined behaviour.                                         *)
(*  - from_raw_parts on a null self.suffix is undefined behaviour too.      *)
(*  - &other_bytes[PREFIX_LENGTH..] panics when other.len() < PREFIX_LENGTH.*)
(* Undefined behaviour can end in any of the three results.                 *)
Panicked == [panic |-> TRUE, val |-> FALSE]
Returned(b) == [panic |-> FALSE, val |-> b]
AnyResult == {Panicked, Returned(TRUE), Returned(FALSE)}

starts_with_str(s, other_bytes, h, b) ==
    IF Len(other_bytes) > len(s) THEN {Returned(FALSE)}
    ELSE IF ~SliceStartsWith(s.prefix,
                SubSeq(other_bytes, 1, Min(PREFIX_LENGTH, Len(other_bytes))))
         THEN {Returned(FALSE)}
    ELSE IF len(s) < PREFIX_LENGTH /\ b = "debug" THEN {Panicked}
    ELSE IF len(s) < PREFIX_LENGTH \/ s.suffix = NULL THEN AnyResult
    ELSE LET self_ptr_len == len(s) - PREFIX_LENGTH
             self_suffix == FromRawParts(h, s.suffix, self_ptr_len)
         IN  IF Len(other_bytes) < PREFIX_LENGTH THEN {Panicked}
             ELSE {Returned(SliceStartsWith(self_suffix,
                      SubSeq(other_bytes, PREFIX_LENGTH + 1, Len(other_bytes))))}

----------------------------------------------------------------------------
(* <Str as Index<usize>>::index.  i is the zero-based index.  The result    *)
(* names the byte read and where it was read from.                          *)

\* index, never leaving the inline array
index_prefix_only(s, i, h) ==
    IF i >= len(s)
    THEN [panic |-> TRUE, byte |-> -1, region |-> "none", at |-> -1]
    ELSE [panic |-> FALSE, byte |-> s.prefix[(i % PREFIX_LENGTH) + 1],
          region |-> "prefix", at |-> i % PREFIX_LENGTH]

index(s, i, h) ==
    IF i >= len(s)
    THEN [panic |-> TRUE, byte |-> -1, region |-> "none", at |-> -1]
    ELSE IF i >= PREFIX_LENGTH
    THEN [panic |-> FALSE, byte |-> h[s.suffix].data[(i - PREFIX_LENGTH) + 1],
          region |-> "suffix", at |-> i - PREFIX_LENGTH]
    ELSE [panic |-> FALSE, byte |-> s.prefix[i + 1],
          region |-> "prefix", at |-> i]

----------------------------------------------------------------------------
(* <Str as PartialEq>::eq *)

\* eq, reading self's suffix for both operands
eq_self_suffix(s, o, h) ==
    IF s.len # o.len THEN FALSE
    ELSE IF s.prefix # o.prefix THEN FALSE
    ELSE IF s.len > PREFIX_LENGTH
    THEN LET ptr_len == s.len - PREFIX_LENGTH
             a == FromRawParts(h, s.suffix, ptr_len)
             b == FromRawParts(h, s.suffix, ptr_len)
         IN  a = b
    ELSE TRUE

eq(s, o, h) ==
    IF s.len # o.len THEN FALSE
    ELSE IF s.prefix # o.prefix THEN FALSE
    ELSE IF s.len > PREFIX_LENGTH
    THEN LET ptr_len == s.len - PREFIX_LENGTH
             a == FromRawParts(h, s.suffix, ptr_len)
             b == FromRawParts(h, o.suffix, ptr_len)
         IN  a = b
    ELSE TRUE

----------------------------------------------------------------------------
(* <Str as Display>::fmt: the bytes written *)

\* fmt, writing the whole inline array, padding included
fmt_whole_prefix(s, h) ==
    LET prefix_str == s.prefix
        suffix_str == IF s.len > PREFIX_LENGTH
                      THEN FromRawParts(h, s.suffix, s.len - PREFIX_LENGTH)
                      ELSE << >>
    IN  prefix_str \o suffix_str

fmt(s, h) ==
    LET prefix_str == SubSeq(s.prefix, 1, Min(PREFIX_LENGTH, len(s)))
        suffix_str == IF s.len > PREFIX_LENGTH
                      THEN FromRawParts(h, s.suffix, s.len - PREFIX_LENGTH)
                      ELSE << >>
    IN  prefix_str \o suffix_str

----------------------------------------------------------------------------
(* Str::reserve.  Line 122 names `ptr`, which is not in scope; the only     *)
(* pointer tested on line 120 is self.suffix, and that is the block passed  *)
(* to dealloc here.  old_total_cap is computed in usize: when it is         *)
(* negative the subtraction panics under overflow checks, and without them  *)
(* wraps to a size above isize::MAX, for which Layout::array returns Err    *)
(* and the unwrap panics; either way the call panics after new_mem was      *)
(* allocated and before any field is written.                               *)

\* the copy of lines 117-119 left out: the new block holds zeroes
copy_suffix_left_out(s, h, new_mem) ==
    IF s.len > PREFIX_LENGTH
    THEN CopyInto(h, new_mem, [i \in 1..(s.len - PREFIX_LENGTH) |-> 0])
    ELSE h

\* lines 117-119: the suffix bytes are copied into the new block
copy_suffix(s, h, new_mem) ==
    IF s.len > PREFIX_LENGTH
    THEN CopyInto(h, new_mem, FromRawParts(h, s.suffix, s.len - PREFIX_LENGTH))
    ELSE h

\* extra capacity reserve counts as already there (lines 100-101)
current_extra_capacity(s) ==
    LET prefix_extra_capactiy == PREFIX_LENGTH - Min(PREFIX_LENGTH, s.len)
    IN  s.capacity_offset + prefix_extra_capactiy

reserve(s, request, h, b) ==
    LET new_cap_offset == request - current_extra_capacity(s)
        new_ptr_len == s.len + new_cap_offset
        h1 == Alloc(h, new_ptr_len)
        new_mem == Len(h1)
        h2 == copy_suffix(s, h1, new_mem)
        old_total_cap == s.len + s.capacity_offset - PREFIX_LENGTH
    IN  IF current_extra_capacity(s) >= request
        THEN [str |-> s, heap |-> h, panic |-> FALSE]
        ELSE IF b = "debug" /\ ~(request < CapacityOffsetTypeMAX)
        THEN [str |-> s, heap |-> h, panic |-> TRUE]
        ELSE IF s.suffix # NULL /\ old_total_cap < 0
        THEN [str |-> s, heap |-> h2, panic |-> TRUE]
        ELSE [str |-> [s EXCEPT !.suffix = new_mem,
                                !.capacity_offset =
                                    new_cap_offset % (CapacityOffsetTypeMAX + 1)],
              heap |-> IF s.suffix # NULL
                       THEN Dealloc(h2, s.suffix, old_total_cap)
                       ELSE h2,
              panic |-> FALSE]

----------------------------------------------------------------------------
(* State machine *)

\* The record of a call: the operation, its argument, whether it panicked,
\* and its result (bool, num or bytes by kind; for index the region and
\* offset read).  before is self as it was when the call was made.
Result(op, arg, s) ==
    [op |-> op, arg |-> arg, panic |-> FALSE, bool |-> FALSE, num |-> 0,
     region |-> "none", at |-> -1, bytes |-> << >>, before |-> s]

\* self = Str::from(s); other = Str::from(t)
Construct(s, t) ==
    LET a == from(s, << >>)
        b == from(t, a.heap)
    IN  /\ self = a.str
        /\ other = b.str
        /\ heap = b.heap
        /\ src = s
        /\ osrc = t
        /\ dropped = FALSE
        /\ out = Result("from", 0, a.str)

\* Lifecycle: other is built from the same bytes as self and is never grown
Init ==
    /\ build \in Builds
    /\ \E s \in Inputs : Construct(s, s)

\* Comparisons: every pair of inputs
InitCmp ==
    /\ build \in Builds
    /\ \E s \in Inputs, t \in Inputs : Construct(s, t)

\* blocks allocated by Construct
InitialBlocks ==
    (IF Len(src) > PREFIX_LENGTH THEN 1 ELSE 0) +
    (IF Len(osrc) > PREFIX_LENGTH THEN 1 ELSE 0)

\* self == other (swap = 0) or other == self (swap = 1)
Eq ==
    /\ ~dropped
    /\ \E swap \in {0, 1} :
         out' = [Result("eq", swap, self) EXCEPT
                   !.bool = IF swap = 0 THEN eq(self, other, heap)
                                        ELSE eq(other, self, heap)]
    /\ UNCHANGED <<self, other, heap, src, osrc, build, dropped>>

\* self.starts_with(&other)
StartsWith ==
    /\ ~dropped
    /\ out' = [Result("starts_with", 0, self) EXCEPT
                 !.bool = starts_with(self, other, heap)]
    /\ UNCHANGED <<self, other, heap, src, osrc, build, dropped>>

\* StartsWithStr::starts_with(&self, osrc)
StartsWithStr ==
    /\ ~dropped
    /\ \E r \in starts_with_str(self, osrc, heap, build) :
         out' = [Result("starts_with_str", 0, self) EXCEPT
                   !.panic = r.panic, !.bool = r.val]
    /\ UNCHANGED <<self, other, heap, src, osrc, build, dropped>>

\* self[i]
Index ==
    /\ ~dropped
    /\ \E i \in 0..(MaxLen + 1) :
         LET r == index(self, i, heap)
         IN  out' = [Result("index", i, self) EXCEPT
                       !.panic = r.panic, !.num = r.byte,
                       !.region = r.region, !.at = r.at]
    /\ UNCHANGED <<self, other, heap, src, osrc, build, dropped>>

\* self.to_string()
Fmt ==
    /\ ~dropped
    /\ out' = [Result("fmt", 0, self) EXCEPT !.bytes = fmt(self, heap)]
    /\ UNCHANGED <<self, other, heap, src, osrc, build, dropped>>

\* self.len()
Length ==
    /\ ~dropped
    /\ out' = [Result("len", 0, self) EXCEPT !.num = len(self)]
    /\ UNCHANGED <<self, other, heap, src, osrc, build, dropped>>

\* self.is_empty()
IsEmpty ==
    /\ ~dropped
    /\ out' = [Result("is_empty", 0, self) EXCEPT !.bool = is_empty(self)]
    /\ UNCHANGED <<self, other, heap, src, osrc, build, dropped>>

\* self.capacity()
Capacity ==
    /\ ~dropped
    /\ out' = [Result("capacity", 0, self) EXCEPT !.num = capacity(self)]
    /\ UNCHANGED <<self, other, heap, src, osrc, build, dropped>>

\* self.reserve(request); bool records whether a block was allocated
Reserve(request) ==
    /\ ~dropped
    /\ Len(heap) - InitialBlocks < MaxGrowths
    /\ LET r == reserve(self, request, heap, build)
       IN  /\ self' = r.str
           /\ heap' = r.heap
           /\ out' = [Result("reserve", request, self) EXCEPT
                        !.panic = r.panic, !.bool = Len(r.heap) > Len(heap)]
    /\ UNCHANGED <<other, src, osrc, build, dropped>>

\* self and other go out of scope.  Str has no Drop impl and its fields
\* need no drop glue, so nothing is run and the heap is left as it is.
Drop ==
    /\ ~dropped
    /\ dropped' = TRUE
    /\ out' = Result("drop", 0, self)
    /\ UNCHANGED <<self, other, heap, src, osrc, build>>

NextCmp ==
    \/ Eq
    \/ StartsWith
    \/ StartsWithStr
    \/ Index
    \/ Fmt
    \/ Length
    \/ IsEmpty
    \/ Capacity

Next ==
    \/ Eq
    \/ StartsWith
    \/ StartsWithStr
    \/ Index
    \/ Fmt
    \/ Length
    \/ IsEmpty
    \/ Capacity
    \/ \E request \in Requests : Reserve(request)
    \/ Drop

\* Next with every reserve request below the CapacityOffsetType limit
NextInRange ==
    \/ Eq
    \/ StartsWith
    \/ StartsWithStr
    \/ Index
    \/ Fmt
    \/ Length
    \/ IsEmpty
    \/ Capacity
    \/ \E request \in SmallRequests : Reserve(request)
    \/ Drop

Spec == Init /\ [][Next]_vars

SpecInRange == Init /\ [][NextInRange]_vars

SpecCmp == InitCmp /\ [][NextCmp]_vars

----------------------------------------------------------------------------
(* Properties *)

\* p is a prefix of s, byte by byte
IsPrefix(p, s) ==
    /\ Len(p) <= Len(s)
    /\ \A i \in 1..Len(p) : p[i] = s[i]

\* s and t are the same byte sequence
SameBytes(s, t) ==
    /\ Len(s) = Len(t)
    /\ \A i \in 1..Len(s) : s[i] = t[i]

\* C1: Str::from(s) == Str::from(t) is true exactly when s and t have the
\* same length and the same bytes, in either operand order.
C1_EqIffSameBytes ==
    out.op = "eq" => (out.bool <=> SameBytes(src, osrc))

\* C1 witness: == answered false for two strings longer than PREFIX_LENGTH
\* of the same length that agree on their first PREFIX_LENGTH bytes.
C1_Witness ==
    /\ out.op = "eq"
    /\ out.arg = 1
    /\ Len(src) > PREFIX_LENGTH
    /\ Len(osrc) = Len(src)
    /\ SubSeq(src, 1, PREFIX_LENGTH) = SubSeq(osrc, 1, PREFIX_LENGTH)
    /\ ~SameBytes(src, osrc)
    /\ out.bool = FALSE

\* C2: Str::from(s).starts_with(&Str::from(p)) is true exactly when p is a
\* prefix of s.
C2_StartsWithIffPrefix ==
    out.op = "starts_with" => (out.bool <=> IsPrefix(osrc, src))

\* C2 witness: starts_with answered false for a candidate longer than
\* PREFIX_LENGTH that agrees with the subject on the inline bytes, and is
\* not longer than the subject.
C2_Witness ==
    /\ out.op = "starts_with"
    /\ Len(osrc) > PREFIX_LENGTH
    /\ Len(osrc) <= Len(src)
    /\ SubSeq(src, 1, PREFIX_LENGTH) = SubSeq(osrc, 1, PREFIX_LENGTH)
    /\ out.bool = FALSE

\* C3: the raw-sequence prefix test completes without failure and returns
\* what the same-type prefix test returns on Str::from(p), that is, whether
\* p is a prefix of s.
C3_RawStartsWithAgrees ==
    out.op = "starts_with_str" =>
        /\ ~out.panic
        /\ out.bool <=> starts_with(self, other, heap)
        /\ out.bool <=> IsPrefix(osrc, src)

\* C4: len() is the length of s, is_empty() is true exactly for the empty
\* s, and the Display rendering is exactly s.
C4_LenAndDisplay ==
    /\ out.op = "len" => out.num = Len(src)
    /\ out.op = "is_empty" => (out.bool <=> Len(src) = 0)
    /\ out.op = "fmt" => SameBytes(out.bytes, src)

\* C4 witness: a string shorter than PREFIX_LENGTH was rendered.
C4_Witness ==
    /\ out.op = "fmt"
    /\ Len(src) > 0
    /\ Len(src) < PREFIX_LENGTH
    /\ Len(out.bytes) = Len(src)

\* C5: self[i] is s[i] for i < len(s), read from the inline prefix when
\* i < PREFIX_LENGTH and from the heap suffix at offset i - PREFIX_LENGTH
\* otherwise; for i >= len(s) the call fails and reads nothing.
C5_Index ==
    out.op = "index" =>
        IF out.arg < Len(src)
        THEN /\ ~out.panic
             /\ out.num = src[out.arg + 1]
             /\ IF out.arg < PREFIX_LENGTH
                THEN out.region = "prefix" /\ out.at = out.arg
                ELSE out.region = "suffix"
                     /\ out.at = out.arg - PREFIX_LENGTH
        ELSE /\ out.panic
             /\ out.region = "none"

\* C5 witness: a byte 0 of the content was read from the heap suffix.
C5_Witness ==
    /\ out.op = "index"
    /\ out.arg >= PREFIX_LENGTH
    /\ ~out.panic
    /\ out.num = 0

\* C6: after reserve(n) returns, capacity() - len() >= n.
C6_ReserveEnsuresSlack ==
    (out.op = "reserve" /\ ~out.panic) =>
        capacity(self) - len(self) >= out.arg

\* C7: reserve(n) changes neither the length nor the content: the value
\* has the length and, at every index, the byte it was built with, renders
\* the same, still compares equal to one built from the same bytes, and
\* when the slack already satisfied n no field changed.
C7_ReserveKeepsContent ==
    out.op = "reserve" =>
        /\ len(self) = len(out.before)
        /\ len(self) = Len(src)
        /\ \A i \in 0..(MaxLen + 1) :
              i < len(self) => index(self, i, heap).byte = src[i + 1]
        /\ SameBytes(fmt(self, heap), src)
        /\ eq(self, other, heap)
        /\ eq(other, self, heap)
        /\ (current_extra_capacity(out.before) >= out.arg =>
               self = out.before /\ ~out.bool)

\* C7 witness: reserve moved a suffix holding a byte 0 to a new block.
C7_Witness ==
    /\ out.op = "reserve"
    /\ ~out.panic
    /\ out.bool
    /\ Len(src) > PREFIX_LENGTH
    /\ \E i \in (PREFIX_LENGTH + 1)..Len(src) : src[i] = 0
    /\ self.suffix = Len(heap)
    /\ self.suffix # out.before.suffix

\* C8: a reserve whose resulting extra capacity does not fit
\* CapacityOffsetType fails and leaves the value unchanged, the stored
\* extra capacity is never a truncated request, and every request that
\* fits is accepted.
C8_ReserveRejectsOverflow ==
    out.op = "reserve" =>
        LET needed == out.arg - current_extra_capacity(out.before)
        IN  IF needed <= 0 THEN TRUE
            ELSE IF needed > CapacityOffsetTypeMAX
            THEN out.panic /\ self = out.before
            ELSE ~out.panic /\ self.capacity_offset = needed

\* C9: the value holds a heap buffer exactly when its length is greater
\* than PREFIX_LENGTH.
C9_SuffixIffLong ==
    (self.suffix # NULL) <=> (self.len > PREFIX_LENGTH)

\* C9 as amended: the value holds a heap buffer exactly when its length is
\* greater than PREFIX_LENGTH or a reserve call has allocated; a value
\* that reserve never grew holds one exactly when it is longer than
\* PREFIX_LENGTH.
C9_SuffixIffLongOrGrown ==
    /\ (self.suffix # NULL) <=>
          (self.len > PREFIX_LENGTH \/ Len(heap) > InitialBlocks)
    /\ (other.suffix # NULL) <=> (other.len > PREFIX_LENGTH)

\* C9 witness: a value no longer than PREFIX_LENGTH holds a heap buffer
\* after reserve grew its capacity.
C9_Witness ==
    /\ out.op = "reserve"
    /\ out.bool
    /\ self.len <= PREFIX_LENGTH
    /\ self.suffix # NULL

\* C10: every block obtained from the allocator is released exactly once,
\* with the size it was allocated with, and none is still held after the
\* value is destroyed.
C10_AllocDeallocPaired ==
    \A b \in 1..Len(heap) :
        /\ heap[b].frees <= 1
        /\ heap[b].frees = 1 => heap[b].freed_size = heap[b].size
        /\ dropped => heap[b].frees = 1

====
